---- MODULE Spec2Model ----
(***************************************************************************)
(* Model of the Fireblocks EIP-712 signer                                  *)
(* (src/src/Fireblocks-HL-TypedMessage-examples/adapters/                  *)
(* FireblocksEip712Signer.ts) and of the HyperliquidAdapter address cache  *)
(* that wraps it.  Calls run as cooperative tasks on one JavaScript event  *)
(* loop: a task runs from one await to the next without interruption, so   *)
(* every action below is one such run (a handler continuation).            *)
(*                                                                         *)
(* JavaScript strings that the code inspects (signatures, r, s, v) are     *)
(* sequences of one-character strings; addresses, which the code only      *)
(* stores and returns, are opaque strings.                                 *)
(***************************************************************************)
EXTENDS Integers, Sequences, FiniteSets, TLC

(***************************************************************************)
(* Bounds of the model.                                                    *)
(***************************************************************************)
\* number of call slots (tasks that can be in flight at once)
NumCalls == 2
\* the poll budget; the code sets 120 (FireblocksEip712Signer.ts:150)
maxAttempts == 4
\* the highest block the chain reaches
MaxHeight == 101

Calls == 1..NumCalls

(***************************************************************************)
(* JavaScript string helpers.                                              *)
(***************************************************************************)
HexDigits == <<"0","1","2","3","4","5","6","7","8","9","a","b","c","d","e","f">>

Rep(c, n) == [i \in 1..n |-> c]

\* String.prototype.startsWith("0x")
StartsWith0x(s) == Len(s) >= 2 /\ s[1] = "0" /\ s[2] = "x"

\* String.prototype.slice(2)
Slice2(s) == IF Len(s) <= 2 THEN << >> ELSE SubSeq(s, 3, Len(s))

\* String.prototype.padStart(n, c)
padStart(s, n, c) == IF Len(s) >= n THEN s ELSE Rep(c, n - Len(s)) \o s

IsHexChar(ch) == \E i \in 1..16 : HexDigits[i] = ch

IsDigitOf(ch, radix) == \E i \in 1..radix : HexDigits[i] = ch

DigitVal(ch) == (CHOOSE i \in 1..16 : HexDigits[i] = ch) - 1

\* number of leading characters of s that are digits of the radix
RECURSIVE LeadingDigits(_, _)
LeadingDigits(s, radix) ==
  IF s = << >> \/ ~IsDigitOf(Head(s), radix) THEN 0
  ELSE 1 + LeadingDigits(Tail(s), radix)

RECURSIVE DigitsValue(_, _, _)
DigitsValue(s, radix, acc) ==
  IF s = << >> THEN acc
  ELSE DigitsValue(Tail(s), radix, acc * radix + DigitVal(Head(s)))

\* a JavaScript number: NaN or an integer
NaN == [nan |-> TRUE, n |-> 0]
Num(n) == [nan |-> FALSE, n |-> n]

\* parseInt(s, radix) for radix 10 and 16: optional sign, optional 0x when
\* the radix is 16, then the longest prefix of digits; NaN when it is empty
parseInt(s, radix) ==
  LET neg  == s # << >> /\ Head(s) = "-"
      s1   == IF s # << >> /\ Head(s) \in {"-", "+"} THEN Tail(s) ELSE s
      s2   == IF radix = 16 /\ StartsWith0x(s1) THEN Slice2(s1) ELSE s1
      k    == LeadingDigits(s2, radix)
      val  == DigitsValue(SubSeq(s2, 1, k), radix, 0)
  IN  IF k = 0 THEN NaN ELSE Num(IF neg THEN 0 - val ELSE val)

\* Number.prototype.toString(16) of an integer
RECURSIVE HexOfNat(_)
HexOfNat(n) ==
  IF n < 16 THEN << HexDigits[n + 1] >>
  ELSE HexOfNat(n \div 16) \o << HexDigits[(n % 16) + 1] >>

toString16(n) == IF n < 0 THEN <<"-">> \o HexOfNat(0 - n) ELSE HexOfNat(n)

(***************************************************************************)
(* JSON values of a signed-message entry.                                  *)
(***************************************************************************)
\* an optional string field
Undefined == [def |-> FALSE, s |-> << >>]
Str(s) == [def |-> TRUE, s |-> s]
\* the field v: undefined, a number or a string
VUndef == [t |-> "undefined", n |-> 0, s |-> << >>]
VNum(n) == [t |-> "number", n |-> n, s |-> << >>]
VStr(s) == [t |-> "string", n |-> 0, s |-> s]

\* truthiness of an optional string
Truthy(o) == o.def /\ o.s # << >>

\* signedMessages[0] = { signature: ... }: signature is a string, an object
\* { fullSig?, r?, s?, v? } or missing
SigString(s) ==
  [kind |-> "string", str |-> s, fullSig |-> Undefined, r |-> Undefined,
   s |-> Undefined, v |-> VUndef]
SigObject(f, r, s, v) ==
  [kind |-> "object", str |-> << >>, fullSig |-> f, r |-> r, s |-> s, v |-> v]
SigMissing ==
  [kind |-> "undefined", str |-> << >>, fullSig |-> Undefined, r |-> Undefined,
   s |-> Undefined, v |-> VUndef]

(***************************************************************************)
(* normalizeSignatureFromFireblocks and its helpers.                       *)
(***************************************************************************)
\* a prefix added without looking at the value
ensureHexAlwaysPrefixed(value) == <<"0", "x">> \o value

ensureHexWith0x(value) ==
  IF StartsWith0x(value) THEN value ELSE <<"0", "x">> \o value

\* value && value.startsWith("0x") ? value.slice(2) : value || ""
strip0x(value) == IF StartsWith0x(value) THEN Slice2(value) ELSE value

\* sig.r || "" for an optional string
OrEmpty(o) == IF Truthy(o) THEN o.s ELSE << >>

\* the number the r/s/v branch derives from sig.v
vNumOf(v) ==
  LET parsed == IF v.t = "string"
                THEN (IF StartsWith0x(v.s) THEN parseInt(v.s, 16)
                      ELSE parseInt(v.s, 10))
                ELSE Num(v.n)
  IN  IF v.t = "undefined" THEN 27
      ELSE IF parsed.nan THEN 27
      ELSE parsed.n

\* results of the normalizer: a string, null, or a thrown error
NormOk(s) == [kind |-> "ok", sig |-> s]
NormNull == [kind |-> "null", sig |-> << >>]
NormThrow == [kind |-> "throw", sig |-> << >>]

\* the 64-byte case of a hex string / fullSig: append the default v = 27
AppendDefaultV(normalized) ==
  IF Len(normalized) = 130 THEN normalized \o <<"1", "b">> ELSE normalized

normalizeSignatureFromFireblocks(sig) ==
  IF sig.kind = "string" THEN NormOk(AppendDefaultV(ensureHexWith0x(sig.str)))
  ELSE IF sig.kind = "object" /\ sig.fullSig.def
    THEN NormOk(AppendDefaultV(ensureHexWith0x(sig.fullSig.s)))
  ELSE IF sig.kind = "object" /\ (Truthy(sig.r) \/ Truthy(sig.s))
    THEN LET r == padStart(strip0x(OrEmpty(sig.r)), 64, "0")
             s == padStart(strip0x(OrEmpty(sig.s)), 64, "0")
             vHex == padStart(toString16(vNumOf(sig.v)), 2, "0")
             combined == <<"0", "x">> \o r \o s \o vHex
         IN  IF Len(combined) # 132 THEN NormThrow ELSE NormOk(combined)
  ELSE NormNull

(***************************************************************************)
(* What the custody service can answer.                                    *)
(***************************************************************************)
\* this.address before the first assignment
AddrUndefined == "<undefined>"
Addresses == {"0xA", "0xB"}
\* the values the field this.address can hold; "" is an empty first address
AddressValues == {AddrUndefined, ""} \cup Addresses

\* a cache test that asks only whether the field was ever assigned
CachedWhenDefined(a) == a # AddrUndefined

\* if (this.address): JavaScript truthiness of the cached address
Cached(a) == a \notin {AddrUndefined, ""}

\* answers of getVaultAccountAssetAddressesPaginated: it throws, or it
\* returns the list response.data.addresses (of address strings)
AddressResponses ==
  {[throws |-> TRUE, addresses |-> << >>]} \cup
  {[throws |-> FALSE, addresses |-> l] :
     l \in {<< >>, <<"">>, <<"0xA">>, <<"0xB">>, <<"0xA", "0xB">>}}

\* TransactionStateEnum values the poll loop can see; PENDING_SIGNATURE
\* stands for the statuses that are not terminal
Statuses ==
  {"PENDING_SIGNATURE", "COMPLETED", "FAILED", "REJECTED", "CANCELLED",
   "BLOCKED"}
\* the terminal failure states (monitor.ts TERMINAL_STATES without Completed)
FailureStatuses == {"FAILED", "REJECTED", "CANCELLED", "BLOCKED"}

R32 == Rep("1", 64)
S32 == Rep("2", 64)
\* the signatures a COMPLETED job delivers in this model
RawSignatures ==
  { SigString(<<"0", "x">> \o R32 \o S32 \o <<"1", "c">>),
    SigString(<<"0", "x", "a", "b", "c", "d">>),
    SigObject(Str(R32 \o S32), Str(R32), Str(S32), VNum(1)),
    SigObject(Undefined, Str(R32), Str(S32), VNum(1)),
    SigObject(Undefined, Str(Rep("1", 66)), Str(S32), VStr(<<"0", "x", "1", "c">>)),
    SigMissing }

\* what a job that ended in failure reports of its end: subStatus ("" when
\* the field is missing) and systemMessages (empty when missing)
FailureDetails ==
  { [subStatus |-> "", systemMessages |-> << >>],
    [subStatus |-> "POLICY_DENIED",
     systemMessages |-> <<"rule 3 denied", "contact admin">>] }

\* answers of transactions.getTransaction: it throws, or it returns
\* { status, signedMessages, subStatus, systemMessages }; a COMPLETED job
\* carries one signed message or none
StatusResponses ==
  {[throws |-> TRUE, status |-> "none", signedMessages |-> << >>,
    subStatus |-> "", systemMessages |-> << >>]} \cup
  {[throws |-> FALSE, status |-> st, signedMessages |-> << >>,
    subStatus |-> "", systemMessages |-> << >>] :
     st \in Statuses \ FailureStatuses} \cup
  {[throws |-> FALSE, status |-> st, signedMessages |-> << >>,
    subStatus |-> d.subStatus, systemMessages |-> d.systemMessages] :
     st \in FailureStatuses, d \in FailureDetails} \cup
  {[throws |-> FALSE, status |-> "COMPLETED", signedMessages |-> <<raw>>,
    subStatus |-> "", systemMessages |-> << >>] :
     raw \in RawSignatures}

(***************************************************************************)
(* State.                                                                  *)
(***************************************************************************)
VARIABLES
  address,      \* FireblocksEip712Signer.address, the cached identity
  account,      \* HyperliquidAdapter.account, the adapter's copy
  pc,           \* per call slot: the await the call is suspended at
  attempt,      \* per call: the loop variable of pollForSignature
  txId,         \* per call: the job id pollForSignature was given
  polls,        \* per call: status queries issued so far
  creates,      \* per call: createTransaction requests issued so far
  created,      \* per call: the job id the custody service made for it
                \* (custody side), 0 before it has made one
  fetchFailed,  \* per call: some status fetch of this call has thrown
  resolved,     \* the addresses that getAddress calls have returned so far
  ev            \* what the last step did: requests issued, value returned

\* the normalizer on its own: one (r, s, v) and what each wire shape of it
\* normalizes to
VARIABLES
  triple,       \* the (r, s, v) the signed-message entries encode
  normOut,      \* per wire shape: the result of the normalizer, once run
  renormOut  \* the result of normalizing one of those results again

\* buildTypedDataObject on its own
VARIABLES
  request,          \* the domain and types signTypedData was called with
  typedDataObject   \* the envelope built from them, once built

\* generateTransactionNote inside signTypedData, on its own
VARIABLES
  message,      \* the domain name and the message signTypedData was called with
  submission    \* what lines 97-131 of signTypedData did with them, once run

\* one call of monitorTransaction (monitor.ts:45-143)
VARIABLES
  mpc,            \* the await the call is suspended at, "idle" outside a call
  monitored,      \* the parameter txId
  options,        \* the parameters rpcUrl and waitForConfirmations
  currentStatus,  \* the local currentStatus
  txHash,         \* the local txHash
  blockNumber,    \* the local blockNumber (receipt.blockNumber)
  currentBlock,   \* the local currentBlock
  chainQueries,   \* chain requests this call has issued
  chainFailed,    \* a chain request of this call was answered by a failure
  lastAnswer,     \* how the request handled by the last step was answered
  hashesSeen,     \* the first and the latest txHash the polls have reported
  result          \* what the call returned or threw, once it has ended

\* the chain the provider of monitorTransaction talks to
VARIABLES
  chainHeight,  \* the height of the chain
  minedAt       \* the height of the block the transaction is in, 0 before
                \* it is mined

\* the three signing poll loops of the repository run side by side on one
\* sequence of job-status responses
VARIABLES
  fed,             \* responses of the sequence given to the loops so far
  firstFailureAt,  \* position of the first failed fetch of the sequence, 0
                   \* while there is none
  runs             \* per loop: iterations done and how it ended, if it has

signerVars == <<address, account, pc, attempt, txId, polls, creates, created,
                fetchFailed, resolved, ev>>

normVars == <<triple, normOut, renormOut>>

typedVars == <<request, typedDataObject>>

noteVars == <<message, submission>>

monitorVars == <<mpc, monitored, options, currentStatus, txHash, blockNumber,
                 currentBlock, chainQueries, chainFailed, lastAnswer,
                 hashesSeen, result>>

\* the state outside the signer object, outside the normalizer run, outside
\* the envelope builder and outside the monitor call
chainVars == <<chainHeight, minedAt>>

replayVars == <<fed, firstFailureAt, runs>>

outsideSigner == <<normVars, typedVars, monitorVars, noteVars, chainVars,
                  replayVars>>
outsideNorm == <<signerVars, typedVars, monitorVars, noteVars, chainVars,
                  replayVars>>
outsideTyped == <<signerVars, normVars, monitorVars, noteVars, chainVars,
                  replayVars>>
outsideMonitor == <<signerVars, normVars, typedVars, noteVars, chainVars,
                  replayVars>>
outsideNote == <<signerVars, normVars, typedVars, monitorVars, chainVars,
                  replayVars>>
outsideReplay == <<signerVars, normVars, typedVars, monitorVars, noteVars,
                  chainVars>>
outsideChain == <<signerVars, normVars, typedVars, monitorVars, noteVars,
                  replayVars>>

vars == <<signerVars, outsideSigner>>

NoEvent ==
  [call |-> 0, op |-> "none", req |-> "none", job |-> 0, status |-> "none",
   ret |-> "none", addr |-> "", sig |-> << >>, err |-> "none",
   late |-> FALSE, own |-> 0, fetchFailed |-> FALSE, raw |-> SigMissing,
   listed |-> "none", sub |-> "", sys |-> << >>, msg |-> << >>]

\* the signer after its constructor: nothing cached, no call in flight
SignerInit ==
  /\ address = AddrUndefined
  /\ account = AddrUndefined
  /\ pc = [c \in Calls |-> "idle"]
  /\ attempt = [c \in Calls |-> 0]
  /\ txId = [c \in Calls |-> 0]
  /\ polls = [c \in Calls |-> 0]
  /\ creates = [c \in Calls |-> 0]
  /\ created = [c \in Calls |-> 0]
  /\ fetchFailed = [c \in Calls |-> FALSE]
  /\ resolved = {}
  /\ ev = NoEvent

(***************************************************************************)
(* Bookkeeping shared by the actions.                                      *)
(***************************************************************************)
\* the call in slot c has returned or thrown: the slot is free again
Finish(c) ==
  /\ pc' = [pc EXCEPT ![c] = "idle"]
  /\ attempt' = [attempt EXCEPT ![c] = 0]
  /\ txId' = [txId EXCEPT ![c] = 0]
  /\ polls' = [polls EXCEPT ![c] = 0]
  /\ creates' = [creates EXCEPT ![c] = 0]
  /\ created' = [created EXCEPT ![c] = 0]
  /\ fetchFailed' = [fetchFailed EXCEPT ![c] = FALSE]

Suspend(c, at) ==
  /\ pc' = [pc EXCEPT ![c] = at]
  /\ UNCHANGED <<attempt, txId, polls, creates, created, fetchFailed>>

\* the event of a call that begins: late says whether an earlier getAddress
\* call had already returned an address
Begin(c, op) == [NoEvent EXCEPT !.call = c, !.op = op, !.late = (resolved # {})]

ReturnsAddress(e, a) == [e EXCEPT !.ret = "address", !.addr = a]
Throws(e, err) == [e EXCEPT !.ret = "error", !.err = err]
ThrowsMessage(e, err, msg) == [e EXCEPT !.ret = "error", !.err = err, !.msg = msg]

(***************************************************************************)
(* getAddress (FireblocksEip712Signer.ts:48-78).                           *)
(***************************************************************************)
\* this.address once the answer of the address query has been handled:
\* line 68 assigns the first listed address before line 70 tests it
addressAfter(resp) ==
  IF resp.throws \/ Len(resp.addresses) = 0 THEN address
  ELSE resp.addresses[1]

\* what the address query answered, as lines 60-70 tell the cases apart
Listed(resp) ==
  IF resp.throws THEN "threw"
  ELSE IF Len(resp.addresses) = 0 THEN "zero"
  ELSE IF resp.addresses[1] = "" THEN "empty"
  ELSE "address"

\* a first address that is returned without the test of line 70
addressResolvedUnchecked(resp) ==
  /\ ~resp.throws
  /\ Len(resp.addresses) > 0

\* the call returns this.address (line 74) rather than throwing
addressResolved(resp) ==
  /\ ~resp.throws
  /\ Len(resp.addresses) > 0
  /\ Cached(resp.addresses[1])

\* getAddress() begins: a cache hit returns at once, a miss issues the query
StartGetAddress(c) ==
  /\ pc[c] = "idle"
  /\ UNCHANGED outsideSigner
  /\ UNCHANGED <<address, account>>
  /\ IF Cached(address)
     THEN /\ ev' = ReturnsAddress(Begin(c, "getAddress"), address)
          /\ resolved' = resolved \cup {address}
          /\ UNCHANGED <<pc, attempt, txId, polls, creates, created,
                         fetchFailed>>
     ELSE /\ ev' = [Begin(c, "getAddress") EXCEPT !.req = "ListAddresses"]
          /\ Suspend(c, "getAddress")
          /\ UNCHANGED resolved

\* the address query of a getAddress() call is answered
AddressResponse(c, resp) ==
  /\ pc[c] = "getAddress"
  /\ UNCHANGED outsideSigner
  /\ address' = addressAfter(resp)
  /\ Finish(c)
  /\ UNCHANGED account
  /\ LET e == [NoEvent EXCEPT !.call = c, !.op = "getAddress",
                              !.listed = Listed(resp)]
     IN  IF addressResolved(resp)
         THEN /\ ev' = ReturnsAddress(e, address')
              /\ resolved' = resolved \cup {address'}
         ELSE /\ ev' = Throws(e, "ResolutionError")
              /\ UNCHANGED resolved

(***************************************************************************)
(* HyperliquidAdapter.getAddress (HyperliquidAdapter.ts:33-39).            *)
(***************************************************************************)
StartAdapterGetAddress(c) ==
  /\ pc[c] = "idle"
  /\ UNCHANGED outsideSigner
  /\ UNCHANGED address
  /\ IF Cached(account)
     THEN /\ ev' = ReturnsAddress(Begin(c, "adapter.getAddress"), account)
          /\ resolved' = resolved \cup {account}
          /\ UNCHANGED <<account, pc, attempt, txId, polls, creates, created,
                         fetchFailed>>
     ELSE IF Cached(address)
     THEN /\ account' = address
          /\ ev' = ReturnsAddress(Begin(c, "adapter.getAddress"), address)
          /\ resolved' = resolved \cup {address}
          /\ UNCHANGED <<pc, attempt, txId, polls, creates, created,
                         fetchFailed>>
     ELSE /\ ev' = [Begin(c, "adapter.getAddress")
                      EXCEPT !.req = "ListAddresses"]
          /\ Suspend(c, "adapter.getAddress")
          /\ UNCHANGED <<account, resolved>>

AdapterAddressResponse(c, resp) ==
  /\ pc[c] = "adapter.getAddress"
  /\ UNCHANGED outsideSigner
  /\ address' = addressAfter(resp)
  /\ Finish(c)
  /\ LET e == [NoEvent EXCEPT !.call = c, !.op = "adapter.getAddress",
                              !.listed = Listed(resp)]
     IN  IF addressResolved(resp)
         THEN /\ account' = address'
              /\ ev' = ReturnsAddress(e, address')
              /\ resolved' = resolved \cup {address'}
         ELSE /\ ev' = Throws(e, "ResolutionError")
              /\ UNCHANGED <<account, resolved>>

(***************************************************************************)
(* signTypedData (FireblocksEip712Signer.ts:89-143).                       *)
(***************************************************************************)
\* the id the custody service gives the job it makes for the request of the
\* call in slot c: ids are opaque, and all that matters of them is that the
\* jobs of two calls in flight never share one
FreshJobId(c) == c

\* lines 107-131: the createTransaction request goes out
SubmitJob(c, e) ==
  /\ pc' = [pc EXCEPT ![c] = "createTransaction"]
  /\ creates' = [creates EXCEPT ![c] = creates[c] + 1]
  /\ ev' = [e EXCEPT !.req = "CreateSigningJob"]
  /\ UNCHANGED <<attempt, txId, polls, created, fetchFailed>>

\* line 94 is outside the try block: the error of getAddress leaves
\* signTypedData before anything is submitted
identityFailureEnds(c, e) ==
  /\ Finish(c)
  /\ ev' = Throws(e, "ResolutionError")
  /\ UNCHANGED resolved

\* signTypedData() begins with await this.getAddress()
StartSignTypedData(c) ==
  /\ pc[c] = "idle"
  /\ UNCHANGED outsideSigner
  /\ UNCHANGED <<address, account>>
  /\ IF Cached(address)
     THEN /\ SubmitJob(c, Begin(c, "signTypedData"))
          /\ resolved' = resolved \cup {address}
     ELSE /\ ev' = [Begin(c, "signTypedData") EXCEPT !.req = "ListAddresses"]
          /\ Suspend(c, "sign.getAddress")
          /\ UNCHANGED resolved

\* the address query of a signTypedData() call is answered; a failure of
\* getAddress is outside the try block and ends the call
SignAddressResponse(c, resp) ==
  /\ pc[c] = "sign.getAddress"
  /\ UNCHANGED outsideSigner
  /\ address' = addressAfter(resp)
  /\ UNCHANGED account
  /\ LET e == [NoEvent EXCEPT !.call = c, !.op = "signTypedData",
                              !.listed = Listed(resp)]
     IN  IF addressResolved(resp)
         THEN /\ SubmitJob(c, e)
              /\ resolved' = resolved \cup {address'}
         ELSE identityFailureEnds(c, e)

\* createTransaction is answered: it throws, or the custody service has
\* made a job and returns its id (line 134), and pollForSignature starts
CreateResponse(c, throws) ==
  /\ pc[c] = "createTransaction"
  /\ UNCHANGED outsideSigner
  /\ UNCHANGED <<address, account, resolved>>
  /\ LET e == [NoEvent EXCEPT !.call = c, !.op = "signTypedData"]
     IN  IF throws
         THEN /\ Finish(c)
              /\ ev' = Throws(e, "SubmitError")
         ELSE /\ created' = [created EXCEPT ![c] = FreshJobId(c)]
              /\ txId' = [txId EXCEPT ![c] = FreshJobId(c)]
              /\ attempt' = [attempt EXCEPT ![c] = 0]
              /\ pc' = [pc EXCEPT ![c] = "pollForSignature"]
              /\ ev' = [e EXCEPT !.own = FreshJobId(c)]
              /\ UNCHANGED <<polls, creates, fetchFailed>>

(***************************************************************************)
(* pollForSignature (FireblocksEip712Signer.ts:148-202).                   *)
(***************************************************************************)
\* a loop that runs one iteration too many
LoopContinuesOffByOne(a) == a <= maxAttempts

\* the loop condition attempt < maxAttempts (line 152)
LoopContinues(a) == a < maxAttempts

\* a job id kept in a field of the signer that every call overwrites
PolledJobShared(c) ==
  CHOOSE j \in {txId[d] : d \in Calls} : \A d \in Calls : txId[d] <= j

\* the job whose status an iteration asks for (line 157)
PolledJob(c) == txId[c]

\* what one iteration of the loop does after its status fetch; msg is the
\* text of a thrown error, as the pieces it is concatenated from, for the
\* errors whose text this model follows
Continue == [k |-> "continue", sig |-> << >>, err |-> "none", msg |-> << >>]
ReturnSig(s) == [k |-> "return", sig |-> s, err |-> "none", msg |-> << >>]
Throw(err) == [k |-> "throw", sig |-> << >>, err |-> err, msg |-> << >>]
ThrowMessage(err, msg) == [k |-> "throw", sig |-> << >>, err |-> err, msg |-> msg]

\* String.prototype.toLowerCase of a status name
toLowerCase(status) ==
  CASE status = "FAILED" -> "failed"
    [] status = "REJECTED" -> "rejected"
    [] status = "CANCELLED" -> "cancelled"
    [] status = "BLOCKED" -> "blocked"
    [] OTHER -> status

\* Array.prototype.join(sep), as pieces
RECURSIVE join(_, _)
join(arr, sep) ==
  IF Len(arr) = 0 THEN << >>
  ELSE IF Len(arr) = 1 THEN arr
  ELSE <<Head(arr), sep>> \o join(Tail(arr), sep)

\* the text of the error thrown for a failed job (lines 187-190)
rejectionMessage(resp) ==
  LET sub == IF resp.subStatus # "" THEN resp.subStatus ELSE "No subStatus"
      sys == IF Len(resp.systemMessages) > 0
             THEN <<" | systemMessages: ">> \o join(resp.systemMessages, "; ")
             ELSE << >>
  IN  <<"Transaction ", toLowerCase(resp.status), ": ", sub>> \o sys

\* formatFireblocksError of an Error that carries no HTTP response: its
\* name and its message (lines 351-355)
formatFireblocksError(msg) == <<"Error", " ">> \o msg

\* the catch block of signTypedData (lines 139-142)
signingFailed(msg) ==
  IF msg = << >> THEN << >>
  ELSE <<"Fireblocks signing failed: ">> \o formatFireblocksError(msg)

\* a status fetch without the catch block: the error leaves the loop
fetchFailureAborts == Throw("StatusFetchError")

\* the catch block of the status fetch (lines 159-163): log and continue
fetchFailure == Continue

\* the statuses the loop treats as a terminal failure (lines 182-186)
RejectingStatuses == {"FAILED", "CANCELLED", "BLOCKED"}

\* the body of the loop (lines 155-198) applied to the answer of
\* getTransaction
pollIteration(resp) ==
  IF resp.throws THEN fetchFailure
  ELSE IF resp.status = "COMPLETED"
    THEN IF resp.signedMessages = << >> THEN Throw("NoSignedMessages")
         ELSE LET normalized ==
                    normalizeSignatureFromFireblocks(resp.signedMessages[1])
              IN  IF normalized.kind = "ok" THEN ReturnSig(normalized.sig)
                  ELSE Throw("SignatureFormatError")
  ELSE IF resp.status \in RejectingStatuses
    THEN ThrowMessage("SigningRejected", rejectionMessage(resp))
  ELSE Continue

\* the loop body applied to each answer the custody service can give
pollOutcome == [resp \in StatusResponses |-> pollIteration(resp)]

\* one iteration: sleep, fetch the status of the job, act on the answer.
\* The two awaits of an iteration touch no state another call can see, so
\* they are one step; the step after the last iteration throws the timeout
\* (line 201).  Every error leaves signTypedData through its catch block
\* (lines 139-142), which rethrows it.
PollStep(c, resp) ==
  /\ pc[c] = "pollForSignature"
  /\ UNCHANGED outsideSigner
  /\ UNCHANGED <<address, account, resolved>>
  /\ LET it == pollOutcome[resp]
         e  == [NoEvent EXCEPT
                  !.call = c, !.op = "signTypedData", !.req = "GetJob",
                  !.job = PolledJob(c),
                  !.status = IF resp.throws THEN "FETCH_ERROR" ELSE resp.status,
                  !.raw = IF resp.signedMessages = << >> THEN SigMissing
                          ELSE resp.signedMessages[1],
                  !.own = created[c],
                  !.sub = resp.subStatus, !.sys = resp.systemMessages,
                  !.fetchFailed = (fetchFailed[c] \/ resp.throws)]
     IN  CASE it.k = "return" ->
                /\ Finish(c)
                /\ ev' = [e EXCEPT !.ret = "signature", !.sig = it.sig]
           [] it.k = "throw" ->
                /\ Finish(c)
                /\ ev' = ThrowsMessage(e, it.err, signingFailed(it.msg))
           [] it.k = "continue" /\ LoopContinues(attempt[c] + 1) ->
                /\ attempt' = [attempt EXCEPT ![c] = attempt[c] + 1]
                /\ polls' = [polls EXCEPT ![c] = polls[c] + 1]
                /\ fetchFailed' =
                     [fetchFailed EXCEPT ![c] = fetchFailed[c] \/ resp.throws]
                /\ ev' = e
                /\ UNCHANGED <<pc, txId, creates, created>>
           [] OTHER ->
                /\ Finish(c)
                /\ ev' = Throws(e, "SigningTimeout")

(***************************************************************************)
(* The earlier signer (src/unnamed/part_007): _signTypedData submits the   *)
(* job without a call of getAddress, and its pollForSignature has no catch *)
(* block around the status fetch and its own normalizer.                   *)
(***************************************************************************)
\* normalizeSignature (part_007:168-200) of signedMessages[0]?.signature
normalizeSignature(sig) ==
  IF sig.kind # "object" THEN NormThrow
  ELSE IF ~sig.fullSig.def \/ Len(sig.fullSig.s) # 128 THEN NormThrow
  ELSE LET v == IF sig.v.t = "number" THEN sig.v.n ELSE 0
           normalized == <<"0", "x">> \o sig.fullSig.s \o toString16(v + 27)
       IN  IF v # 0 /\ v # 1 THEN NormThrow
           ELSE IF Len(normalized) # 132 THEN NormThrow
           ELSE NormOk(normalized)

\* the text of the error thrown for a failed job (part_007:149-154)
earlierRejectionMessage(resp) ==
  LET sub == IF resp.subStatus # "" THEN resp.subStatus ELSE "No subStatus"
      details == IF Len(resp.systemMessages) > 0
                 THEN <<sub, " | ">> \o join(resp.systemMessages, "; ")
                 ELSE <<sub>>
  IN  <<"Transaction ", toLowerCase(resp.status), ": ">> \o details

\* the catch block of _signTypedData (part_007:119-121)
earlierSigningFailed(msg) ==
  IF msg = << >> THEN << >> ELSE <<"Fireblocks signing failed: ">> \o msg

\* the body of the loop (part_007:129-157) applied to the answer of
\* getTransaction: a fetch that throws leaves the loop with its error
earlierPollIteration(resp) ==
  IF resp.throws THEN Throw("StatusFetchError")
  ELSE IF resp.status = "COMPLETED"
    THEN IF resp.signedMessages = << >> THEN Throw("NoSignedMessages")
         ELSE LET normalized == normalizeSignature(resp.signedMessages[1])
              IN  IF normalized.kind = "ok" THEN ReturnSig(normalized.sig)
                  ELSE Throw("SignatureFormatError")
  ELSE IF resp.status \in RejectingStatuses
    THEN ThrowMessage("SigningRejected", earlierRejectionMessage(resp))
  ELSE Continue

earlierPollOutcome == [resp \in StatusResponses |-> earlierPollIteration(resp)]

\* _signTypedData() begins: the envelope is built and createTransaction
\* goes out (part_007:83-110); this.address is not looked at
EarlierStartSignTypedData(c) ==
  /\ pc[c] = "idle"
  /\ UNCHANGED outsideSigner
  /\ UNCHANGED <<address, account, resolved>>
  /\ SubmitJob(c, Begin(c, "signTypedData"))

\* one iteration of the earlier loop (part_007:128-163)
EarlierPollStep(c, resp) ==
  /\ pc[c] = "pollForSignature"
  /\ UNCHANGED outsideSigner
  /\ UNCHANGED <<address, account, resolved>>
  /\ LET it == earlierPollOutcome[resp]
         e  == [NoEvent EXCEPT
                  !.call = c, !.op = "signTypedData", !.req = "GetJob",
                  !.job = txId[c],
                  !.status = IF resp.throws THEN "FETCH_ERROR" ELSE resp.status,
                  !.raw = IF resp.signedMessages = << >> THEN SigMissing
                          ELSE resp.signedMessages[1],
                  !.own = created[c],
                  !.sub = resp.subStatus, !.sys = resp.systemMessages,
                  !.fetchFailed = resp.throws]
     IN  CASE it.k = "return" ->
                /\ Finish(c)
                /\ ev' = [e EXCEPT !.ret = "signature", !.sig = it.sig]
           [] it.k = "throw" ->
                /\ Finish(c)
                /\ ev' = ThrowsMessage(e, it.err, earlierSigningFailed(it.msg))
           [] it.k = "continue" /\ LoopContinues(attempt[c] + 1) ->
                /\ attempt' = [attempt EXCEPT ![c] = attempt[c] + 1]
                /\ polls' = [polls EXCEPT ![c] = polls[c] + 1]
                /\ ev' = e
                /\ UNCHANGED <<pc, txId, creates, created, fetchFailed>>
           [] OTHER ->
                /\ Finish(c)
                /\ ev' = Throws(e, "SigningTimeout")

(***************************************************************************)
(* The poll loops side by side: pollForSignature of                        *)
(* FireblocksEip712Signer.ts (148-202), of part_007 (128-163) and of       *)
(* example-transfer-to-vault.ts (182-238), each given the same responses.  *)
(***************************************************************************)
\* the body of the loop of example-transfer-to-vault.ts (lines 189-233): no
\* catch block around the fetch, the signature normalized in place
inlinePollIteration(resp) ==
  IF resp.throws THEN Throw("StatusFetchError")
  ELSE IF resp.status = "COMPLETED"
    THEN IF resp.signedMessages = << >> THEN Throw("NoSignedMessages")
         ELSE LET sig == resp.signedMessages[1]
                  v == IF sig.v.t = "number" THEN sig.v.n ELSE 0
                  normalized ==
                    <<"0", "x">> \o sig.fullSig.s \o toString16(v + 27)
              IN  IF sig.kind # "object" THEN Throw("SignatureFormatError")
                  ELSE IF ~sig.fullSig.def \/ Len(sig.fullSig.s) # 128
                    THEN Throw("SignatureFormatError")
                  ELSE IF Len(normalized) # 132
                    THEN Throw("SignatureFormatError")
                  ELSE ReturnSig(normalized)
  ELSE IF resp.status \in RejectingStatuses
    THEN ThrowMessage("SigningRejected", rejectionMessage(resp))
  ELSE Continue

inlinePollOutcome == [resp \in StatusResponses |-> inlinePollIteration(resp)]

Tolerant == "FireblocksEip712Signer.ts"
Aborting == {"part_007", "example-transfer-to-vault.ts"}
Loops == {Tolerant} \cup Aborting

\* the loop body of each file
iterationOf(loop, resp) ==
  CASE loop = "FireblocksEip712Signer.ts" -> pollOutcome[resp]
    [] loop = "part_007" -> earlierPollOutcome[resp]
    [] loop = "example-transfer-to-vault.ts" -> inlinePollOutcome[resp]

\* a loop before its first iteration
NotStarted == [attempt |-> 0, out |-> Continue]

\* one more iteration of a loop that has not ended: the loop header is the
\* same in the three files (attempt < maxAttempts, then the timeout error)
runStep(loop, run, resp) ==
  IF run.out.k # "continue" THEN run
  ELSE LET it == iterationOf(loop, resp)
       IN  IF it.k # "continue"
           THEN [attempt |-> run.attempt + 1, out |-> it]
           ELSE IF LoopContinues(run.attempt + 1)
           THEN [attempt |-> run.attempt + 1, out |-> Continue]
           ELSE [attempt |-> run.attempt + 1, out |-> Throw("SigningTimeout")]

ReplayIdle ==
  /\ fed = 0
  /\ firstFailureAt = 0
  /\ runs = [loop \in Loops |-> NotStarted]

\* the next response of the sequence reaches every loop that is still
\* polling
FeedResponse(resp) ==
  /\ \E loop \in Loops : runs[loop].out.k = "continue"
  /\ fed' = fed + 1
  /\ firstFailureAt' = IF resp.throws /\ firstFailureAt = 0 THEN fed + 1
                       ELSE firstFailureAt
  /\ runs' = [loop \in Loops |-> runStep(loop, runs[loop], resp)]
  /\ UNCHANGED outsideReplay

(***************************************************************************)
(* The ethers.Signer methods the signer does not support                   *)
(* (FireblocksEip712Signer.ts:362-410).                                    *)
(***************************************************************************)
UnsupportedOps ==
  {"signTransaction", "signMessage", "connect", "getNonce", "populateCall",
   "populateTransaction", "estimateGas", "call", "resolveName",
   "sendTransaction", "populateAuthorization", "authorize"}

\* a fallback that answers with a default instead of throwing
bestEffortFallback(e) == ReturnsAddress(e, "")

\* throw new Error("... not supported ...")
notSupported(e) == Throws(e, "UnsupportedOperation")

\* the whole body of each of these methods is the throw
Unsupported(c, op) ==
  /\ pc[c] = "idle"
  /\ UNCHANGED outsideSigner
  /\ ev' = notSupported(Begin(c, op))
  /\ UNCHANGED <<address, account, pc, attempt, txId, polls, creates,
                 created, fetchFailed, resolved>>

(***************************************************************************)
(* The normalizer on its own.  One (r, s, v) is handed to                  *)
(* normalizeSignatureFromFireblocks in each of the three wire shapes of a  *)
(* signed-message entry, and a result can be handed to it again as a hex   *)
(* string.                                                                 *)
(***************************************************************************)
Shapes == {"hexString", "fullSig", "rsv"}

\* the (r, s, v) of this model: r and s are 32 bytes, v is a recovery id in
\* either convention
Triples ==
  [r : {R32, Rep("a", 64)}, s : {S32}, v : {0, 1, 27, 28}]

\* the byte v as two hex characters
VByte(v) == padStart(toString16(v), 2, "0")

\* the signed-message entry that carries t in the given wire shape
Entry(t, shape) ==
  CASE shape = "hexString" ->
         SigString(<<"0", "x">> \o t.r \o t.s \o VByte(t.v))
    [] shape = "fullSig" ->
         SigObject(Str(t.r \o t.s), Undefined, Undefined, VNum(t.v))
    [] shape = "rsv" ->
         SigObject(Undefined, Str(t.r), Str(t.s), VNum(t.v))

NotRun == [kind |-> "notRun", sig |-> << >>]

NormIdle ==
  /\ triple = [r |-> << >>, s |-> << >>, v |-> 27]
  /\ normOut = [sh \in Shapes |-> NotRun]
  /\ renormOut = [from |-> "none", res |-> NotRun]

\* normalizeSignatureFromFireblocks is applied to the entry of one shape
Normalize(shape) ==
  /\ normOut[shape] = NotRun
  /\ normOut' =
       [normOut EXCEPT
          ![shape] = normalizeSignatureFromFireblocks(Entry(triple, shape))]
  /\ UNCHANGED <<triple, renormOut, outsideNorm>>

\* a signature the normalizer returned is handed to it again, as the hex
\* string it is
Renormalize(shape) ==
  /\ normOut[shape].kind = "ok"
  /\ renormOut.from = "none"
  /\ renormOut' =
       [from |-> shape,
        res |-> normalizeSignatureFromFireblocks(
                  SigString(normOut[shape].sig))]
  /\ UNCHANGED <<triple, normOut, outsideNorm>>

(***************************************************************************)
(* buildTypedDataObject (FireblocksEip712Signer.ts:241-260) on its own.    *)
(* An object is the sequence of its <<key, value>> entries in insertion    *)
(* order; a domain maps each of its five fields to a value or to Absent.   *)
(***************************************************************************)
Absent == "<undefined>"
DomainFields == {"name", "version", "chainId", "verifyingContract", "salt"}

\* the domains of this model: every subset of the fields is present
Domains == [DomainFields -> {Absent, "value"}]

Field(n, t) == [name |-> n, type |-> t]

OrderType == <<Field("coin", "string"), Field("sz", "uint64")>>
AgentType == <<Field("source", "string")>>
\* a domain descriptor the caller wrote, not the one the code would make
CallerDomainType == <<Field("chainId", "uint256"), Field("name", "string")>>

\* the types arguments of this model
TypeSchemas ==
  { << >>,
    << <<"Order", OrderType>> >>,
    << <<"Order", OrderType>>, <<"Agent", AgentType>> >>,
    << <<"Agent", AgentType>>, <<"Order", OrderType>> >>,
    << <<"EIP712Domain", CallerDomainType>>, <<"Order", OrderType>> >>,
    << <<"EIP712Domain", << >> >> >> }

\* Object.keys(o)
Keys(o) == [i \in 1..Len(o) |-> o[i][1]]
HasKey(o, key) == \E i \in 1..Len(o) : o[i][1] = key
\* o[key] of a key the object has
Get(o, key) == o[CHOOSE i \in 1..Len(o) : o[i][1] = key][2]

\* a descriptor that lists all five fields whatever the domain holds
domainTypeDefaulted(domain) ==
  <<Field("name", "string"), Field("version", "string"),
    Field("chainId", "uint256"), Field("verifyingContract", "address"),
    Field("salt", "bytes32")>>

\* lines 246-251: one push per field that is not undefined
domainTypeOf(domain) ==
  LET d1 == IF domain["name"] # Absent
            THEN <<Field("name", "string")>> ELSE << >>
      d2 == IF domain["version"] # Absent
            THEN Append(d1, Field("version", "string")) ELSE d1
      d3 == IF domain["chainId"] # Absent
            THEN Append(d2, Field("chainId", "uint256")) ELSE d2
      d4 == IF domain["verifyingContract"] # Absent
            THEN Append(d3, Field("verifyingContract", "address")) ELSE d3
      d5 == IF domain["salt"] # Absent
            THEN Append(d4, Field("salt", "bytes32")) ELSE d4
  IN  d5

\* lines 253-255: types.EIP712Domain ? types : { ...types, EIP712Domain }
\* (an array, even an empty one, is truthy)
typesWithDomain(domain, types) ==
  IF HasKey(types, "EIP712Domain") THEN types
  ELSE Append(types, <<"EIP712Domain", domainTypeOf(domain)>>)

\* the first key of the object, whatever it names
primaryTypeFirstKey(types) == Keys(types)[1]

\* line 257: the first key that is not EIP712Domain, or else EIP712Domain
primaryTypeOf(types) ==
  LET ks == SelectSeq(Keys(types), LAMBDA t : t # "EIP712Domain")
  IN  IF Len(ks) > 0 THEN ks[1] ELSE "EIP712Domain"

buildTypedDataObject(domain, types) ==
  [types |-> typesWithDomain(domain, types),
   domain |-> domain,
   primaryType |-> primaryTypeOf(typesWithDomain(domain, types))]

NotBuilt ==
  [types |-> << >>, domain |-> [f \in DomainFields |-> Absent],
   primaryType |-> "<none>"]

TypedIdle ==
  /\ request = [domain |-> [f \in DomainFields |-> Absent], types |-> << >>]
  /\ typedDataObject = NotBuilt

\* line 100 of signTypedData: the envelope of the request is built
BuildTypedDataObject ==
  /\ typedDataObject = NotBuilt
  /\ typedDataObject' = buildTypedDataObject(request.domain, request.types)
  /\ UNCHANGED <<request, outsideTyped>>

\* the next call of signTypedData arrives with its own domain and types
NextRequest(domain, types) ==
  /\ typedDataObject # NotBuilt
  /\ request' = [domain |-> domain, types |-> types]
  /\ typedDataObject' = NotBuilt
  /\ UNCHANGED outsideTyped

(***************************************************************************)
(* generateTransactionNote (FireblocksEip712Signer.ts:208-229) and the     *)
(* lines of signTypedData that run it (97-131), on their own.              *)
(***************************************************************************)
\* an order of action.orders: { isBuy, coin, sz }
Orders == [isBuy : BOOLEAN, coin : {Absent, "ETH"}, sz : {Absent, "0.5"}]

\* action.orders: missing, or a list of orders (possibly empty)
OrderLists ==
  {[def |-> FALSE, items |-> << >>], [def |-> TRUE, items |-> << >>]} \cup
  {[def |-> TRUE, items |-> <<o>>] : o \in Orders}

\* message.action: missing, a string, or an object { type, orders, amount,
\* usd }
NoAction ==
  [kind |-> "undefined", type |-> Absent,
   orders |-> [def |-> FALSE, items |-> << >>], amount |-> Absent,
   usd |-> Absent]
StringAction == [NoAction EXCEPT !.kind = "string"]
ObjectActions ==
  [kind : {"object"}, type : {"order", "withdraw3", "withdraw", "cancel"},
   orders : OrderLists, amount : {Absent, "10"}, usd : {Absent, "5"}]

\* the calls of this model: domain.name and message.action
Messages ==
  [domainName : {Absent, "Exchange"},
   action : {NoAction, StringAction} \cup ObjectActions]

\* a || b for strings that are missing or not empty
Or(a, b) == IF a # Absent THEN a ELSE b

\* what a call of a function does: it returns a text (as pieces) or throws
Returned(text) == [threw |-> FALSE, text |-> text]
TypeError == [threw |-> TRUE, text |-> << >>]

\* lines 215-219: action.orders[0] of an empty list is undefined, and
\* reading order.isBuy of undefined throws a TypeError
noteOfOrder(orders, fallback) ==
  IF Len(orders.items) = 0 THEN TypeError
  ELSE LET order == orders.items[1]
       IN  Returned(<<"HL order: ", Or(order.coin, "unknown"), " ",
                      IF order.isBuy THEN "buy" ELSE "sell", " ",
                      Or(order.sz, "unknown")>>)

\* a string action is truthy and its properties type and orders are
\* undefined, so neither branch of lines 214-224 is taken
generateTransactionNote(domainName, action) ==
  LET fallback == <<"HL EIP-712 signature: ", Or(domainName, "Unknown")>>
  IN  IF action.kind # "object" THEN Returned(fallback)
      ELSE IF action.type = "order" /\ action.orders.def
        THEN noteOfOrder(action.orders, fallback)
      ELSE IF action.type \in {"withdraw3", "withdraw"}
        THEN Returned(<<"HL withdrawal: ",
                        Or(action.amount, Or(action.usd, "unknown")),
                        " USDC">>)
      ELSE Returned(fallback)

NotSubmitted == [req |-> "none", threw |-> FALSE, note |-> << >>]

NoteIdle ==
  /\ message = [domainName |-> Absent, action |-> NoAction]
  /\ submission = NotSubmitted

\* lines 97-131 of signTypedData, which no await interrupts: the note is
\* derived outside the try block, then the createTransaction request that
\* carries it goes out
SubmitWithNote ==
  /\ submission = NotSubmitted
  /\ LET note == generateTransactionNote(message.domainName, message.action)
     IN  submission' =
           IF note.threw
           THEN [req |-> "none", threw |-> TRUE, note |-> << >>]
           ELSE [req |-> "CreateSigningJob", threw |-> FALSE,
                 note |-> note.text]
  /\ UNCHANGED <<message, outsideNote>>

\* the next call of signTypedData arrives with its own domain and message
NextMessage(m) ==
  /\ submission # NotSubmitted
  /\ message' = m
  /\ submission' = NotSubmitted
  /\ UNCHANGED outsideNote

(***************************************************************************)
(* monitorTransaction (monitor.ts:45-143).  A call keeps everything in     *)
(* locals, so calls share no state and one call at a time is modelled.     *)
(***************************************************************************)
\* tx.txHash when the field is missing or empty: falsy
NoHash == ""
Hashes == {"0xh1", "0xh2"}
\* currentStatus before the first poll has been answered
NotPolled == "<undefined>"

MonitorIds == {"tx-1", "tx-2"}
\* rpcUrl is configured or not; waitForConfirmations as the caller sets it
MonitorOptions == [rpcUrl : BOOLEAN, waitForConfirmations : 0..2]

\* block heights the chain collaborator reports
Heights == 99..MaxHeight

TERMINAL_STATES == {"COMPLETED", "FAILED", "REJECTED", "CANCELLED", "BLOCKED"}

\* answers of transactions.getTransaction: it throws, or it returns
\* { status, txHash }
TransactionResponses ==
  {[throws |-> TRUE, status |-> "none", txHash |-> NoHash]} \cup
  {[throws |-> FALSE, status |-> st, txHash |-> h] :
     st \in Statuses, h \in {NoHash} \cup Hashes}

\* answers of provider.waitForTransaction: it throws, or it returns null or
\* a receipt { blockNumber }
ReceiptResponses ==
  {[throws |-> TRUE, receipt |-> FALSE, blockNumber |-> 0],
   [throws |-> FALSE, receipt |-> FALSE, blockNumber |-> 0]} \cup
  {[throws |-> FALSE, receipt |-> TRUE, blockNumber |-> b] : b \in Heights}

\* answers of provider.getBlockNumber: it throws, or it returns the height
BlockNumberResponses ==
  {[throws |-> TRUE, height |-> 0]} \cup
  {[throws |-> FALSE, height |-> h] : h \in Heights}

\* an optional number of a MonitorResult
NoNumber == [def |-> FALSE, n |-> 0]
Number(n) == [def |-> TRUE, n |-> n]
\* a MonitorResult without the field error
NoError == << >>

NoResult ==
  [kind |-> "none", id |-> "", status |-> NotPolled, txHash |-> NoHash,
   blockNumber |-> NoNumber, confirmations |-> NoNumber, error |-> NoError]

\* the promise of monitorTransaction is rejected
Thrown == [NoResult EXCEPT !.kind = "thrown"]

MonitorResult(id, status, hash, bn, conf, error) ==
  [kind |-> "returned", id |-> id, status |-> status, txHash |-> hash,
   blockNumber |-> bn, confirmations |-> conf, error |-> error]

\* a test of the failure states that leaves Rejected out
isFailureStateWithoutRejected(status) ==
  status \in {"FAILED", "CANCELLED", "BLOCKED"}

\* lines 74-79
isFailureState(status) ==
  status \in {"FAILED", "REJECTED", "CANCELLED", "BLOCKED"}

\* lines 80-85
custodyFailure(id, status, hash) ==
  MonitorResult(id, status, hash, NoNumber, NoNumber,
                <<"Transaction ", toLowerCase(status)>>)

\* lines 108-113
receiptNotFound(id, status, hash) ==
  MonitorResult(id, status, hash, NoNumber, NoNumber,
                <<"Transaction receipt not found">>)

\* a count that leaves out the block the transaction is in
confirmationsExclusive(current, mined) == current - mined

\* line 118
confirmationsOf(current, mined) == current - mined + 1

\* lines 120-126
confirmed(id, status, hash, mined, current) ==
  MonitorResult(id, status, hash, Number(mined),
                Number(confirmationsOf(current, mined)), NoError)

\* a catch block that returns what is known and drops the error
onChainFailedSilently(id, status, hash) ==
  MonitorResult(id, status, hash, NoNumber, NoNumber, NoError)

\* lines 127-134
onChainFailed(id, status, hash) ==
  MonitorResult(id, status, hash, NoNumber, NoNumber,
                <<"On-chain monitoring failed: ", "Error">>)

\* lines 138-142
notMonitored(id, status, hash) ==
  MonitorResult(id, status, hash, NoNumber, NoNumber, NoError)

\* a capture that takes the hash of every poll that reports one
capturedHashLatest(captured, reported) ==
  IF reported # NoHash THEN reported ELSE captured

\* lines 67-69: if (tx.txHash && !txHash) txHash = tx.txHash
capturedHash(captured, reported) ==
  IF reported # NoHash /\ captured = NoHash THEN reported ELSE captured

\* a test that asks for the chain collaborator only
entersPhase2WithoutHash(opts, hash) == opts.rpcUrl

\* line 97: if (rpcUrl && txHash)
entersPhase2(opts, hash) == opts.rpcUrl /\ hash # NoHash

MonitorIdle ==
  /\ mpc = "idle"
  /\ monitored = ""
  /\ options = [rpcUrl |-> FALSE, waitForConfirmations |-> 1]
  /\ currentStatus = NotPolled
  /\ txHash = NoHash
  /\ blockNumber = 0
  /\ currentBlock = 0
  /\ chainQueries = 0
  /\ chainFailed = FALSE
  /\ lastAnswer = "none"
  /\ hashesSeen = [first |-> NoHash, latest |-> NoHash]
  /\ result = NoResult

\* the call ends with the given result
MonitorEnds(res) ==
  /\ mpc' = "idle"
  /\ result' = res

\* monitorTransaction(fireblocks, txId, options) begins: lines 54-61, up to
\* the first getTransaction request
StartMonitor(id, opts) ==
  /\ mpc = "idle"
  /\ mpc' = "getTransaction"
  /\ monitored' = id
  /\ options' = opts
  /\ currentStatus' = NotPolled
  /\ txHash' = NoHash
  /\ blockNumber' = 0
  /\ currentBlock' = 0
  /\ chainQueries' = 0
  /\ chainFailed' = FALSE
  /\ lastAnswer' = "none"
  /\ hashesSeen' = [first |-> NoHash, latest |-> NoHash]
  /\ result' = NoResult
  /\ UNCHANGED outsideMonitor

\* getTransaction is answered (lines 61-94 and, when the loop is left, lines
\* 97-102 or 138-142).  Nothing catches a rejection of the request.
TransactionResponse(resp) ==
  /\ mpc = "getTransaction"
  /\ UNCHANGED <<outsideMonitor, monitored, options, blockNumber,
                 currentBlock, chainFailed>>
  /\ IF resp.throws
     THEN /\ lastAnswer' = "threw"
          /\ MonitorEnds(Thrown)
          /\ UNCHANGED <<currentStatus, txHash, chainQueries, hashesSeen>>
     ELSE LET hash == capturedHash(txHash, resp.txHash)
          IN  /\ lastAnswer' = "ok"
              /\ hashesSeen' =
                   [first |-> IF hashesSeen.first = NoHash THEN resp.txHash
                              ELSE hashesSeen.first,
                    latest |-> resp.txHash]
              /\ currentStatus' = resp.status
              /\ txHash' = hash
              /\ CASE resp.status \notin TERMINAL_STATES ->
                        /\ mpc' = "sleep"
                        /\ UNCHANGED <<result, chainQueries>>
                   [] resp.status \in TERMINAL_STATES
                        /\ isFailureState(resp.status) ->
                        /\ MonitorEnds(custodyFailure(monitored, resp.status,
                                                      hash))
                        /\ UNCHANGED chainQueries
                   [] OTHER ->
                        IF entersPhase2(options, hash)
                        THEN /\ mpc' = "waitForTransaction"
                             /\ chainQueries' = chainQueries + 1
                             /\ UNCHANGED result
                        ELSE /\ MonitorEnds(notMonitored(monitored,
                                                         resp.status, hash))
                             /\ UNCHANGED chainQueries

\* the sleep of line 93 is over: the next getTransaction request goes out
PollAgain ==
  /\ mpc = "sleep"
  /\ mpc' = "getTransaction"
  /\ lastAnswer' = "none"
  /\ UNCHANGED <<outsideMonitor, monitored, options, currentStatus, txHash,
                 blockNumber, currentBlock, chainQueries, chainFailed,
                 hashesSeen, result>>

\* waitForTransaction is answered (lines 102-117)
ReceiptResponse(resp) ==
  /\ mpc = "waitForTransaction"
  /\ UNCHANGED <<outsideMonitor, monitored, options, currentStatus, txHash,
                 currentBlock, hashesSeen>>
  /\ IF resp.throws
     THEN /\ lastAnswer' = "threw"
          /\ chainFailed' = TRUE
          /\ MonitorEnds(onChainFailed(monitored, currentStatus, txHash))
          /\ UNCHANGED <<blockNumber, chainQueries>>
     ELSE IF ~resp.receipt
     THEN /\ lastAnswer' = "null"
          /\ chainFailed' = TRUE
          /\ MonitorEnds(receiptNotFound(monitored, currentStatus, txHash))
          /\ UNCHANGED <<blockNumber, chainQueries>>
     ELSE /\ lastAnswer' = "ok"
          /\ blockNumber' = resp.blockNumber
          /\ mpc' = "getBlockNumber"
          /\ chainQueries' = chainQueries + 1
          /\ UNCHANGED <<chainFailed, result>>

\* getBlockNumber is answered (lines 117-126)
BlockNumberResponse(resp) ==
  /\ mpc = "getBlockNumber"
  /\ UNCHANGED <<outsideMonitor, monitored, options, currentStatus, txHash,
                 blockNumber, chainQueries, hashesSeen>>
  /\ IF resp.throws
     THEN /\ lastAnswer' = "threw"
          /\ chainFailed' = TRUE
          /\ MonitorEnds(onChainFailed(monitored, currentStatus, txHash))
          /\ UNCHANGED currentBlock
     ELSE /\ lastAnswer' = "ok"
          /\ currentBlock' = resp.height
          /\ MonitorEnds(confirmed(monitored, currentStatus, txHash,
                                   blockNumber, resp.height))
          /\ UNCHANGED chainFailed

(***************************************************************************)
(* The chain behind the provider (monitor.ts:99-117).  Its height never    *)
(* decreases, and the transaction is mined into one of its blocks.         *)
(* provider.waitForTransaction(hash, confirms) of ethers resolves with the *)
(* receipt once the transaction has confirms confirmations; with confirms  *)
(* = 0 it resolves at once, with the receipt or with null.                 *)
(***************************************************************************)
ChainIdle ==
  /\ chainHeight = 99
  /\ minedAt = 0

\* a block is added; it holds the transaction or not
MineBlock(withTransaction) ==
  /\ chainHeight < MaxHeight
  /\ chainHeight' = chainHeight + 1
  /\ minedAt' = IF withTransaction /\ minedAt = 0 THEN chainHeight + 1
                ELSE minedAt
  /\ UNCHANGED outsideChain

\* a call that waits for the default of one confirmation
confirmsDefault(opts) == 1

\* line 104: the second argument of waitForTransaction
confirmsAsked(opts) == opts.waitForConfirmations

\* the answers waitForTransaction can give on this chain
waitForTransactionAnswers(confirms, resp) ==
  \/ resp.throws
  \/ /\ ~resp.throws /\ confirms = 0
     /\ IF minedAt = 0 THEN ~resp.receipt
        ELSE resp.receipt /\ resp.blockNumber = minedAt
  \/ /\ ~resp.throws /\ confirms > 0
     /\ minedAt # 0 /\ resp.receipt /\ resp.blockNumber = minedAt
     /\ chainHeight - minedAt + 1 >= confirms

\* the answers getBlockNumber can give on this chain
getBlockNumberAnswers(resp) == resp.throws \/ resp.height = chainHeight

\* waitForTransaction is answered by this chain
ChainReceiptResponse(resp) ==
  /\ waitForTransactionAnswers(confirmsAsked(options), resp)
  /\ ReceiptResponse(resp)

\* getBlockNumber is answered by this chain
ChainBlockNumberResponse(resp) ==
  /\ getBlockNumberAnswers(resp)
  /\ BlockNumberResponse(resp)

(***************************************************************************)
(* The system: calls begin at any time and the custody service answers     *)
(* the outstanding requests in any order.                                  *)
(***************************************************************************)
Init ==
  /\ SignerInit /\ NormIdle /\ TypedIdle /\ MonitorIdle /\ NoteIdle
  /\ ChainIdle /\ ReplayIdle

Next ==
  \E c \in Calls :
    \/ StartGetAddress(c)
    \/ \E resp \in AddressResponses : AddressResponse(c, resp)
    \/ StartAdapterGetAddress(c)
    \/ \E resp \in AddressResponses : AdapterAddressResponse(c, resp)
    \/ StartSignTypedData(c)
    \/ \E resp \in AddressResponses : SignAddressResponse(c, resp)
    \/ \E throws \in BOOLEAN : CreateResponse(c, throws)
    \/ \E resp \in StatusResponses : PollStep(c, resp)

Spec == Init /\ [][Next]_vars

TypeOK ==
  /\ address \in AddressValues
  /\ account \in AddressValues
  /\ pc \in [Calls -> {"idle", "getAddress", "adapter.getAddress",
                       "sign.getAddress", "createTransaction",
                       "pollForSignature"}]
  /\ attempt \in [Calls -> 0..maxAttempts]
  /\ txId \in [Calls -> {0} \cup Calls]
  /\ created \in [Calls -> {0} \cup Calls]
  /\ creates \in [Calls -> 0..1]
  /\ resolved \subseteq Addresses

\* the signing calls alone: no getAddress call from outside signTypedData
SignNext ==
  \E c \in Calls :
    \/ StartSignTypedData(c)
    \/ \E resp \in AddressResponses : SignAddressResponse(c, resp)
    \/ \E throws \in BOOLEAN : CreateResponse(c, throws)
    \/ \E resp \in StatusResponses : PollStep(c, resp)

SignSpec == Init /\ [][SignNext]_vars

\* the signing calls of the earlier signer; its createTransaction is
\* answered as in the later one (part_007:112-117)
EarlierSignNext ==
  \E c \in Calls :
    \/ EarlierStartSignTypedData(c)
    \/ \E throws \in BOOLEAN : CreateResponse(c, throws)
    \/ \E resp \in StatusResponses : EarlierPollStep(c, resp)

EarlierSignSpec == Init /\ [][EarlierSignNext]_vars

\* the three poll loops on every sequence of responses
ReplayNext == \E resp \in StatusResponses : FeedResponse(resp)

ReplaySpec == Init /\ [][ReplayNext]_vars

\* the identity calls alone: getAddress on the signer and on the adapter
IdentityNext ==
  \E c \in Calls :
    \/ StartGetAddress(c)
    \/ \E resp \in AddressResponses : AddressResponse(c, resp)
    \/ StartAdapterGetAddress(c)
    \/ \E resp \in AddressResponses : AdapterAddressResponse(c, resp)

IdentitySpec == Init /\ [][IdentityNext]_vars

\* the identity calls together with the unsupported methods
AdapterNext ==
  \/ IdentityNext
  \/ \E c \in Calls, op \in UnsupportedOps : Unsupported(c, op)

AdapterSpec == Init /\ [][AdapterNext]_vars

\* the normalizer on its own, for every (r, s, v) of the model
NormInit ==
  /\ SignerInit /\ TypedIdle /\ MonitorIdle /\ NoteIdle /\ ChainIdle
  /\ ReplayIdle
  /\ triple \in Triples
  /\ normOut = [sh \in Shapes |-> NotRun]
  /\ renormOut = [from |-> "none", res |-> NotRun]

NormNext ==
  \/ \E shape \in Shapes : Normalize(shape)
  \/ \E shape \in Shapes : Renormalize(shape)

NormSpec == NormInit /\ [][NormNext]_vars

\* the envelope builder on its own, for every request of the model
TypedInit ==
  /\ SignerInit /\ NormIdle /\ MonitorIdle /\ NoteIdle /\ ChainIdle
  /\ ReplayIdle
  /\ request \in [domain : Domains, types : TypeSchemas]
  /\ typedDataObject = NotBuilt

TypedNext ==
  \/ BuildTypedDataObject
  \/ \E domain \in Domains, types \in TypeSchemas : NextRequest(domain, types)

TypedSpec == TypedInit /\ [][TypedNext]_vars

\* the note of every message of the model
NoteInit ==
  /\ SignerInit /\ NormIdle /\ TypedIdle /\ MonitorIdle /\ ChainIdle
  /\ ReplayIdle
  /\ message \in Messages
  /\ submission = NotSubmitted

NoteNext ==
  \/ SubmitWithNote
  \/ \E m \in Messages : NextMessage(m)

NoteSpec == NoteInit /\ [][NoteNext]_vars

\* monitor calls, one after the other, against any custody and chain
\* answers
MonitorNext ==
  \/ \E id \in MonitorIds, opts \in MonitorOptions : StartMonitor(id, opts)
  \/ \E resp \in TransactionResponses : TransactionResponse(resp)
  \/ PollAgain
  \/ \E resp \in ReceiptResponses : ReceiptResponse(resp)
  \/ \E resp \in BlockNumberResponses : BlockNumberResponse(resp)

MonitorSpec == Init /\ [][MonitorNext]_vars

\* the collaborators answer every request and every sleep ends: a call that
\* is suspended at an await is resumed in the end
MonitorResumed ==
  /\ WF_vars(\E resp \in TransactionResponses : TransactionResponse(resp))
  /\ WF_vars(PollAgain)
  /\ WF_vars(\E resp \in ReceiptResponses : ReceiptResponse(resp))
  /\ WF_vars(\E resp \in BlockNumberResponses : BlockNumberResponse(resp))

MonitorLiveSpec == MonitorSpec /\ MonitorResumed

\* monitor calls against a chain whose height never decreases
ChainMonitorNext ==
  \/ \E id \in MonitorIds, opts \in MonitorOptions : StartMonitor(id, opts)
  \/ \E resp \in TransactionResponses : TransactionResponse(resp)
  \/ PollAgain
  \/ \E resp \in ReceiptResponses : ChainReceiptResponse(resp)
  \/ \E resp \in BlockNumberResponses : ChainBlockNumberResponse(resp)
  \/ \E withTransaction \in BOOLEAN : MineBlock(withTransaction)

ChainMonitorSpec == Init /\ [][ChainMonitorNext]_vars

(***************************************************************************)
(* Properties.                                                             *)
(***************************************************************************)
Polling(c) == pc[c] = "pollForSignature"

\* the last step fetched a job status and the call ended in that step
PollEnded == ev.req = "GetJob" /\ ev.ret # "none"

\* C1: a signing call issues at most maxAttempts status queries (a call that
\* is still polling has budget left); a call whose last poll saw no terminal
\* status ends with SigningTimeout; a signature is returned only by a poll
\* that reported COMPLETED.
C1_PollingBounded ==
  /\ \A c \in Calls :
       /\ polls[c] <= maxAttempts
       /\ Polling(c) => polls[c] < maxAttempts
  /\ (PollEnded /\ ev.status \notin FailureStatuses \cup {"COMPLETED"})
       => (ev.ret = "error" /\ ev.err = "SigningTimeout")
  /\ ev.ret = "signature" => (ev.req = "GetJob" /\ ev.status = "COMPLETED")

\* a call runs out of attempts without ever seeing a terminal status
C1_Witness ==
  /\ ev.err = "SigningTimeout"
  /\ ev.status \in {"PENDING_SIGNATURE", "FETCH_ERROR"}

\* the signature is 0x followed by exactly 130 hex characters
Is65ByteHex(sig) ==
  /\ Len(sig) = 132
  /\ StartsWith0x(sig)
  /\ \A i \in 3..Len(sig) : IsHexChar(sig[i])

\* C2: every signature signTypedData returns is 0x plus exactly 130 hex
\* characters, and a COMPLETED job whose signature cannot be brought to that
\* length ends the call with SignatureFormatError.
C2_Always65Bytes ==
  /\ ev.ret = "signature" => Is65ByteHex(ev.sig)
  /\ (ev.status = "COMPLETED" /\ ev.ret = "error" /\ ev.raw # SigMissing)
       => ev.err = "SignatureFormatError"

\* the last byte of a returned signature, as two hex characters
LastByte(sig) ==
  IF Len(sig) < 2 THEN sig ELSE SubSeq(sig, Len(sig) - 1, Len(sig))

\* C3: the final byte v of every signature signTypedData returns is 27 (1b)
\* or 28 (1c).  Stated of the returned signatures that are 65 bytes long,
\* so that the final byte is the recovery id v.
C3_VIs27Or28 ==
  (ev.ret = "signature" /\ Is65ByteHex(ev.sig))
    => LastByte(ev.sig) \in {<<"1", "b">>, <<"1", "c">>}

\* getAddress calls (direct or through the adapter) whose query is out
QueriesInFlight ==
  {c \in Calls : pc[c] \in {"getAddress", "adapter.getAddress"}}

\* C4: concurrent getAddress calls issue at most one address query between
\* them and all return the same address.
C4_OneQueryForConcurrentCalls ==
  /\ Cardinality(QueriesInFlight) <= 1
  /\ Cardinality(resolved) <= 1

\* C5: once this.address holds a resolved address it never changes.
C5_CacheWrittenOnce == [][Cached(address) => address' = address]_vars

\* C6: a getAddress call that begins after an earlier one has returned an
\* address issues no address query and returns that same address.
C6_LateCallUsesCache ==
  (ev.op \in {"getAddress", "adapter.getAddress"} /\ ev.late)
    => /\ ev.req # "ListAddresses"
       /\ ev.ret = "address" => resolved = {ev.addr}

\* C7: the first poll that reports FAILED, REJECTED, CANCELLED or BLOCKED
\* ends the call with SigningRejected in that iteration.
C7_FailureStatusEndsCall ==
  (ev.req = "GetJob" /\ ev.status \in FailureStatuses)
    => (ev.ret = "error" /\ ev.err = "SigningRejected")

C9_OneJobPerCall ==
  /\ \A c \in Calls :
       /\ creates[c] <= 1
       /\ pc[c] \in {"createTransaction", "pollForSignature"} <=> creates[c] = 1
       /\ polls[c] > 0 => Polling(c)
       /\ Polling(c) <=> created[c] # 0
  /\ ev.req = "CreateSigningJob" => polls[ev.call] = 0
  /\ ev.req = "GetJob" => (ev.own # 0 /\ ev.job = ev.own)

\* two signing calls are polling at once and one of them has just polled
C9_Witness ==
  /\ ev.req = "GetJob"
  /\ \E c, d \in Calls :
       /\ c # d /\ Polling(c) /\ Polling(d)
       /\ ev.call = c /\ created[c] # created[d]

\* C10: a COMPLETED job that delivers explicit r, s and v = 0 or 1 makes
\* signTypedData return r and s, each left-padded to 32 bytes, followed by
\* the byte v + 27.
C10_ExplicitVMapped ==
  (/\ ev.req = "GetJob" /\ ev.status = "COMPLETED"
   /\ ev.raw.kind = "object" /\ Truthy(ev.raw.r) /\ Truthy(ev.raw.s)
   /\ ev.raw.v.t = "number" /\ ev.raw.v.n \in {0, 1}
   /\ Len(strip0x(ev.raw.r.s)) <= 64 /\ Len(strip0x(ev.raw.s.s)) <= 64)
    => /\ ev.ret = "signature"
       /\ ev.sig = <<"0", "x">> \o padStart(strip0x(ev.raw.r.s), 64, "0")
                     \o padStart(strip0x(ev.raw.s.s), 64, "0")
                     \o toString16(ev.raw.v.n + 27)

\* the signature is canonical: 65 bytes whose last byte is 27 or 28
IsCanonical(sig) ==
  Is65ByteHex(sig) /\ LastByte(sig) \in {<<"1", "b">>, <<"1", "c">>}

\* C11: the three wire shapes of one (r, s, v) normalize to the same
\* signature: any two shapes that have been normalized gave equal results.
\* Stated of the triples whose v is already 27 or 28, where the handling of
\* v has nothing to map.
C11_ShapesAgree ==
  triple.v \in {27, 28}
    => \A sh1, sh2 \in Shapes :
         (normOut[sh1] # NotRun /\ normOut[sh2] # NotRun)
           => normOut[sh1] = normOut[sh2]

C13_EmptyListingFails ==
  /\ ev.listed \in {"zero", "empty"}
       => (ev.ret = "error" /\ ev.err = "ResolutionError")
  /\ ev.ret = "address" => Cached(ev.addr)

\* a getAddress call has failed on an empty first address while another
\* call had already resolved the identity
C13_Witness ==
  /\ ev.op = "getAddress" /\ ev.listed = "empty"
  /\ ev.err = "ResolutionError"
  /\ resolved # {}

\* the pieces an error text is made of
Pieces(msg) == {msg[i] : i \in 1..Len(msg)}

\* C14: a poll that reports FAILED, REJECTED, CANCELLED or BLOCKED ends the
\* call with a SigningRejected error whose text contains the sub-status and
\* every system message that this poll reported.
C14_ErrorCarriesSubStatus ==
  (ev.req = "GetJob" /\ ev.status \in FailureStatuses)
    => /\ ev.ret = "error" /\ ev.err = "SigningRejected"
       /\ ev.sub # "" => ev.sub \in Pieces(ev.msg)
       /\ \A i \in 1..Len(ev.sys) : ev.sys[i] \in Pieces(ev.msg)

\* C15: a step in which an unsupported method is called ends that call
\* with UnsupportedOperation, issues no custody request, and leaves the
\* identity caches and every call in flight as they were.
C15_UnsupportedFailsAtOnce ==
  [][ev'.op \in UnsupportedOps
       => /\ ev'.ret = "error" /\ ev'.err = "UnsupportedOperation"
          /\ ev'.req = "none"
          /\ address' = address /\ account' = account
          /\ pc' = pc /\ resolved' = resolved]_vars

\* an unsupported method has been called while the identity was cached and
\* the address query of another call was outstanding
C15_Witness ==
  /\ ev.op \in UnsupportedOps /\ ev.ret = "error"
  /\ Cached(address)
  /\ \E c \in Calls : pc[c] # "idle"

\* the descriptor the spec prescribes for a domain: the fields in the order
\* name, version, chainId, verifyingContract, salt, each only if present
DomainFieldOrder ==
  <<Field("name", "string"), Field("version", "string"),
    Field("chainId", "uint256"), Field("verifyingContract", "address"),
    Field("salt", "bytes32")>>

\* C16: without a domain descriptor in types, the envelope's EIP712Domain
\* holds exactly the present fields of the domain in the fixed order, and
\* the other types are as given; with one, types is submitted unchanged.
C16_DomainTypeSynthesized ==
  typedDataObject # NotBuilt
    => IF HasKey(request.types, "EIP712Domain")
       THEN typedDataObject.types = request.types
       ELSE /\ Get(typedDataObject.types, "EIP712Domain") =
                 SelectSeq(DomainFieldOrder,
                           LAMBDA f : request.domain[f.name] # Absent)
            /\ \A i \in 1..Len(request.types) :
                 typedDataObject.types[i] = request.types[i]
            /\ Len(typedDataObject.types) = Len(request.types) + 1

\* the envelope of a domain with only name and chainId has been built from
\* types without a domain descriptor
C16_Witness ==
  /\ typedDataObject # NotBuilt
  /\ ~HasKey(request.types, "EIP712Domain")
  /\ {f \in DomainFields : request.domain[f] # Absent} = {"name", "chainId"}
  /\ Get(typedDataObject.types, "EIP712Domain") =
       <<Field("name", "string"), Field("chainId", "uint256")>>

\* C17: a custody poll that reports FAILED, REJECTED, CANCELLED or BLOCKED
\* ends the monitor call at that poll: the result carries that status, the
\* hash captured so far and an error, and no chain request has gone out.
C17_CustodyFailureReturnsAtOnce ==
  currentStatus \in FailureStatuses
    => /\ mpc = "idle"
       /\ result.kind = "returned"
       /\ result.status = currentStatus
       /\ result.txHash = txHash
       /\ result.error # NoError
       /\ chainQueries = 0
       /\ ~result.blockNumber.def /\ ~result.confirmations.def

\* a call with a chain collaborator configured and a hash captured has
\* ended on a REJECTED poll
C17_Witness ==
  /\ currentStatus = "REJECTED"
  /\ options.rpcUrl /\ txHash # NoHash
  /\ result.kind = "returned"

\* C18: in a returned result, an error beside status COMPLETED occurs
\* exactly when a chain request failed, an error beside a failure status
\* exactly when a custody poll reported that failure, and a result after
\* either failure always carries an error.
C18_FailuresDistinguishable ==
  result.kind = "returned"
    => /\ (result.error # NoError /\ result.status = "COMPLETED")
            <=> chainFailed
       /\ (result.error # NoError /\ result.status \in FailureStatuses)
            <=> currentStatus \in FailureStatuses
       /\ (chainFailed \/ currentStatus \in FailureStatuses)
            => result.error # NoError
       /\ ~(chainFailed /\ currentStatus \in FailureStatuses)

\* a call has returned after custody completed and a chain request failed
C18_Witness ==
  /\ result.kind = "returned" /\ chainFailed
  /\ result.status = "COMPLETED" /\ result.error # NoError

\* C19: a result after both chain requests were answered carries
\* confirmations = current height - mined height + 1 and the mined height
\* as blockNumber; mined at 100 with the chain at 100 gives 1.
C19_ConfirmationsInclusive ==
  /\ (result.kind = "returned" /\ chainQueries = 2 /\ ~chainFailed)
       => /\ result.confirmations = Number(currentBlock - blockNumber + 1)
          /\ result.blockNumber = Number(blockNumber)
  /\ result.confirmations.def
       => (result.kind = "returned" /\ chainQueries = 2 /\ ~chainFailed)
  /\ (result.confirmations.def /\ blockNumber = 100 /\ currentBlock = 100)
       => result.confirmations.n = 1

\* custody completed with a hash; the receipt was mined at 100, the chain
\* is at 100 and one confirmation was asked for
C19_Witness ==
  /\ result.kind = "returned" /\ result.status = "COMPLETED"
  /\ result.txHash # NoHash
  /\ options.waitForConfirmations = 1
  /\ blockNumber = 100 /\ currentBlock = 100
  /\ result.confirmations = Number(1)

\* C20: a request of the monitor call that throws (a custody status fetch
\* or a chain request) does not end the call: it ends neither with a thrown
\* error nor with a result.
C20_FailedQueryRetried ==
  lastAnswer = "threw" => (result.kind = "none" /\ mpc # "idle")

\* C21: every monitor call ends: a call that has begun returns or throws in
\* the end, whatever the custody service and the chain answer.
C21_MonitorTerminates == (mpc # "idle") ~> (mpc = "idle")

\* C22: deriving the note never throws: once lines 97-131 of signTypedData
\* have run, the createTransaction request has gone out.
C22_AnnotatorNeverThrows ==
  submission # NotSubmitted
    => (~submission.threw /\ submission.req = "CreateSigningJob")

C25_FirstHashKept ==
  /\ txHash = hashesSeen.first
  /\ result.kind = "returned" => result.txHash = hashesSeen.first

\* a call has returned the hash of an earlier poll although its last poll
\* reported another hash
C25_Witness ==
  /\ result.kind = "returned"
  /\ result.txHash # NoHash
  /\ hashesSeen.latest \notin {NoHash, result.txHash}

\* the raw signature has a 65-byte form the normalizer arrives at
HasCanonicalForm(raw) ==
  LET normalized == normalizeSignatureFromFireblocks(raw)
  IN  normalized.kind = "ok" /\ Is65ByteHex(normalized.sig)

\* C26: a poll that finds the job COMPLETED without a signed message, or
\* with a signature that cannot be normalized, ends the call with an error
\* at that iteration: the call is no longer polling and returns nothing.
C26_TerminalFaultSurfaces ==
  (ev.req = "GetJob" /\ ev.status = "COMPLETED" /\ ~HasCanonicalForm(ev.raw))
    => /\ ev.ret = "error"
       /\ ev.err \in {"NoSignedMessages", "SignatureFormatError"}
       /\ ~Polling(ev.call)

\* positions of the keys of a types argument that do not name the domain type
NonDomainKeys(types) == {i \in 1..Len(types) : types[i][1] # "EIP712Domain"}

\* C27: the primaryType of a built envelope is decided by the types argument
\* alone: the non-domain key declared first (the only one when there is just
\* one), and the domain type name only when types has no other key.
C27_PrimaryTypeFirstDeclared ==
  typedDataObject # NotBuilt
    => LET nd == NonDomainKeys(request.types)
       IN  IF nd = {} THEN typedDataObject.primaryType = "EIP712Domain"
           ELSE /\ typedDataObject.primaryType # "EIP712Domain"
                /\ \E i \in nd :
                     /\ \A j \in nd : i <= j
                     /\ typedDataObject.primaryType = request.types[i][1]

\* an envelope has been built from types that declare the domain type first
\* and Order after it, and its primaryType is Order
C27_Witness ==
  /\ typedDataObject # NotBuilt
  /\ Keys(request.types) = <<"EIP712Domain", "Order">>
  /\ typedDataObject.primaryType = "Order"

\* C28: a signing call submits nothing before its identity is resolved.
\* While its address query is out it has issued no createTransaction and no
\* status query; if the query fails the call ends with ResolutionError and
\* issues no request; and the step that submits the job is the one that
\* handled the address the query listed, or a cache hit.
C28_IdentityBeforeSubmission ==
  /\ \A c \in Calls :
       pc[c] = "sign.getAddress"
         => (creates[c] = 0 /\ polls[c] = 0 /\ created[c] = 0)
  /\ (ev.op = "signTypedData" /\ ev.listed \in {"threw", "zero", "empty"})
       => /\ ev.ret = "error" /\ ev.err = "ResolutionError"
          /\ ev.req = "none"
          /\ pc[ev.call] = "idle"
  /\ ev.req = "CreateSigningJob"
       => /\ ev.op = "signTypedData"
          /\ creates[ev.call] = 1 /\ polls[ev.call] = 0
          /\ Cached(address)
          /\ ev.listed \in {"address", "none"}

\* the identity calls
IdentityOps == {"getAddress", "adapter.getAddress"}

\* C29: a getAddress call whose address query throws, lists nothing or lists
\* an empty first address ends in an error and puts no address into either
\* cache; a call that begins while the cache holds no address issues a
\* fresh address query; and a query that lists an address makes the call
\* return that address and cache it.
C29_FailureNotCached ==
  [][(ev'.call \in Calls /\ ev'.op \in IdentityOps)
       => /\ ev'.listed \in {"threw", "zero", "empty"}
               => /\ ev'.ret = "error"
                  /\ address' \in Addresses => address' = address
                  /\ account' = account
          /\ (pc[ev'.call] = "idle" /\ address \notin Addresses
                /\ (ev'.op = "adapter.getAddress" => account \notin Addresses))
               => /\ ev'.req = "ListAddresses"
                  /\ ev'.ret = "none"
                  /\ pc'[ev'.call] = ev'.op
          /\ ev'.listed = "address"
               => /\ ev'.ret = "address"
                  /\ ev'.addr \in Addresses
                  /\ address' = ev'.addr]_vars

\* a getAddress call has just issued a fresh address query after an earlier
\* call had failed on an empty first address
C29_Witness ==
  /\ ev.op = "getAddress"
  /\ ev.req = "ListAddresses"
  /\ address = ""

\* how a loop stands: still polling, or the class of its outcome
OutcomeClass(run) ==
  CASE run.out.k = "continue" -> "polling"
    [] run.out.k = "return" -> "signature returned"
    [] run.out.err = "SigningRejected" -> "rejection"
    [] run.out.err = "SigningTimeout" -> "timeout"
    [] run.out.err = "StatusFetchError" -> "fetch error"
    [] OTHER -> "format error"

\* C30: on a sequence of responses without a failed fetch the three loops
\* have done the same number of iterations and stand in the same outcome
\* class; once a fetch has failed, a loop without the catch block has ended
\* before that fetch or in it, with the fetch error, and the loop with the
\* catch block has not ended with a fetch error.
C30_LoopsAgreeWithoutFailedFetch ==
  /\ firstFailureAt = 0
       => \A loop \in Aborting :
            /\ runs[loop].attempt = runs[Tolerant].attempt
            /\ OutcomeClass(runs[loop]) = OutcomeClass(runs[Tolerant])
  /\ firstFailureAt > 0
       => /\ \A loop \in Aborting :
               \/ runs[loop].attempt < firstFailureAt
               \/ /\ runs[loop].attempt = firstFailureAt
                  /\ OutcomeClass(runs[loop]) = "fetch error"
          /\ OutcomeClass(runs[Tolerant]) # "fetch error"

====
